---------------------------- MODULE Spec2Model ----------------------------
(***************************************************************************)
(* The concurrent multi-provider match/search subsystem of kerkerker:      *)
(* the streaming endpoint /api/douban/match-vod-stream (the direct-call    *)
(* variant, route.ts lines 470-705), the provider registry it reads        *)
(* (lib/vod-sources-db) and the client handler that consumes the event     *)
(* stream and keeps the ranked list (searchPlaySources in page.tsx).       *)
(*                                                                         *)
(* Strings the code lowercases, trims or searches are sequences of         *)
(* one-character strings; opaque identifiers stay TLA+ strings.            *)
(***************************************************************************)
EXTENDS Integers, Sequences, FiniteSets, TLC

(***************************************************************************)
(* Bounds of the model.                                                    *)
(***************************************************************************)
\* the largest number of documents the registry collection holds
MaxProviders == 3

(***************************************************************************)
(* JavaScript values.                                                      *)
(***************************************************************************)
\* null / undefined where the code expects an object
Null == [isNull |-> TRUE]

\* the completion of a call that threw instead of returning
Thrown == [thrown |-> TRUE]

\* VodSource.priority / VodSourceDoc.priority left out (undefined)
NoPriority == -1

\* the fallback of `source.priority ?? 999`
DefaultPriority == 999

\* the fallback of `doc.priority ?? 0`
DocDefaultPriority == 0

Range(s) == {s[i] : i \in 1..Len(s)}

(***************************************************************************)
(* String.prototype.toLowerCase, trim and includes.                        *)
(***************************************************************************)
LowerChar(c) == IF c = "A" THEN "a" ELSE IF c = "B" THEN "b" ELSE c

ToLowerCase(s) == [i \in 1..Len(s) |-> LowerChar(s[i])]

IsSpace(c) == c = " "

RECURSIVE TrimStart(_)
TrimStart(s) ==
    IF s # <<>> /\ IsSpace(Head(s)) THEN TrimStart(Tail(s)) ELSE s

RECURSIVE TrimEnd(_)
TrimEnd(s) ==
    IF s # <<>> /\ IsSpace(s[Len(s)])
    THEN TrimEnd(SubSeq(s, 1, Len(s) - 1))
    ELSE s

Trim(s) == TrimEnd(TrimStart(s))

\* s.includes(sub): sub occurs in s as a contiguous run; "" occurs everywhere
Includes(s, sub) ==
    \E i \in 1..(Len(s) - Len(sub) + 1) : SubSeq(s, i, i + Len(sub) - 1) = sub

\* Array.prototype.find, given the set of indices whose element satisfies the
\* predicate: the first of them, 0 (undefined) if there is none
FindIndex(satisfying) ==
    IF satisfying = {} THEN 0
    ELSE CHOOSE i \in satisfying : \A j \in satisfying : i <= j

(***************************************************************************)
(* getMatchConfidence(vodName, title)                                      *)
(***************************************************************************)
\* mutant: the two strings are lowercased but not trimmed
getMatchConfidenceNoTrim(vodName, title) ==
    LET normalizedVodName == ToLowerCase(vodName)
        normalizedTitle == ToLowerCase(title)
    IN  IF normalizedVodName = normalizedTitle THEN "high"
        ELSE IF Includes(normalizedVodName, normalizedTitle)
                \/ Includes(normalizedTitle, normalizedVodName) THEN "medium"
        ELSE "low"

getMatchConfidence(vodName, title) ==
    LET normalizedVodName == Trim(ToLowerCase(vodName))
        normalizedTitle == Trim(ToLowerCase(title))
    IN  IF normalizedVodName = normalizedTitle THEN "high"
        ELSE IF Includes(normalizedVodName, normalizedTitle)
                \/ Includes(normalizedTitle, normalizedVodName) THEN "medium"
        ELSE "low"


(***************************************************************************)
(* The provider registry: the vod_sources collection (lib/vod-sources-db). *)
(* A document is [id, key, name, priority, enabled, sort_order]; priority  *)
(* is NoPriority when the stored document has no such field.               *)
(***************************************************************************)
\* the priority the i-th registry document was stored with
DocPriority(i) == IF i % 2 = 0 THEN NoPriority ELSE 1

ProviderKeys == [i \in 1..(MaxProviders + 1) |->
                    CASE i = 1 -> "s1" [] i = 2 -> "s2" [] i = 3 -> "s3"
                      [] i = 4 -> "s4" [] OTHER -> "s5"]

VodSourceDoc(i, enabled) ==
    [id |-> i, key |-> ProviderKeys[i], name |-> ProviderKeys[i],
     priority |-> DocPriority(i), enabled |-> enabled, sort_order |-> i]

\* every content of the collection the model starts from
Registries ==
    UNION {{[i \in 1..n |-> VodSourceDoc(i, en[i])] : en \in [1..n -> BOOLEAN]}
           : n \in 0..MaxProviders}

\* docToVodSource(doc)
docToVodSource(doc) ==
    [key |-> doc.key, name |-> doc.name,
     priority |-> IF doc.priority = NoPriority THEN DocDefaultPriority
                  ELSE doc.priority]

\* the order of .sort({ priority: 1, sort_order: 1, _id: 1 }); a missing
\* priority compares as null, before every number
DocBefore(a, b) ==
    \/ a.priority < b.priority
    \/ a.priority = b.priority /\ a.sort_order < b.sort_order
    \/ a.priority = b.priority /\ a.sort_order = b.sort_order /\ a.id < b.id

RECURSIVE SortDocs(_)
SortDocs(S) ==
    IF S = {} THEN <<>>
    ELSE LET first == CHOOSE d \in S : \A e \in S \ {d} : DocBefore(d, e)
         IN  <<first>> \o SortDocs(S \ {first})

\* mutant: find({}) in place of find({ enabled: true })
getVodSourcesUnfiltered(collection) ==
    LET docs == SortDocs(Range(collection))
    IN  [i \in 1..Len(docs) |-> docToVodSource(docs[i])]

\* getVodSourcesFromDB(): find({ enabled: true }), sorted, mapped
getVodSourcesFromDB(collection) ==
    LET docs == SortDocs({d \in Range(collection) : d.enabled})
    IN  [i \in 1..Len(docs) |-> docToVodSource(docs[i])]

(***************************************************************************)
(* What one provider answers.  A response is                               *)
(*   [net, status, body]: net is "ok" when fetch resolved, "error" or      *)
(*   "timeout" when it rejected; body is what response.json() reads:       *)
(*   [kind |-> "json", code, hasList, list], [kind |-> "html"] (an HTML or *)
(*   XML page, or any text JSON.parse rejects) or [kind |-> "aborted"]     *)
(*   (the 15 s AbortSignal fired while the body was read).                 *)
(***************************************************************************)
NoBody == [kind |-> "none"]

HtmlBody == [kind |-> "html"]

AbortedBody == [kind |-> "aborted"]

JsonBody(code, hasList, list) ==
    [kind |-> "json", code |-> code, hasList |-> hasList, list |-> list]

VodItem(id, name) == [vod_id |-> id, vod_name |-> name]

\* the titles a search is asked for, after cleanTitleForSearch
SearchTitle == <<"a", "b">>

\* the keyword of the title "U" of a second request
OtherSearchTitle == <<"b", "a">>

\* the keyword of the title "V": upper case and surrounding whitespace
PaddedSearchTitle == <<" ", "A", "b", " ">>

\* cleanTitleForSearch(title), for the titles of the model
cleanTitleForSearch(t) ==
    CASE t = "U" -> OtherSearchTitle
      [] t = "V" -> PaddedSearchTitle
      [] OTHER -> SearchTitle

\* candidate lists of a provider: best candidate scoring high, medium, low
ListHigh == <<VodItem(11, <<"x">>), VodItem(12, <<"A", "b", " ">>)>>

ListMedium == <<VodItem(21, <<"x">>), VodItem(22, <<"a", "b", "x">>)>>

ListLow == <<VodItem(31, <<"x">>), VodItem(32, <<"b", "a">>)>>

Bodies ==
    {HtmlBody, JsonBody(0, FALSE, <<>>), JsonBody(1, TRUE, <<>>),
     JsonBody(1, TRUE, ListHigh), JsonBody(1, TRUE, ListMedium),
     JsonBody(1, TRUE, ListLow)}

HttpStatuses == {200, 500}

\* Response.ok
ResponseOk(status) == status >= 200 /\ status <= 299

NoResponse == [net |-> "pending", status |-> 0, body |-> NoBody]

(***************************************************************************)
(* searchSingleSource(source, keyword), given what the provider answered.  *)
(***************************************************************************)
bestMatchIndex(list, keyword) ==
    LET normalizedKeyword == Trim(ToLowerCase(keyword))
        exact(item) == Trim(ToLowerCase(item.vod_name)) = normalizedKeyword
        contains(item) ==
            \/ Includes(ToLowerCase(item.vod_name), normalizedKeyword)
            \/ Includes(normalizedKeyword, ToLowerCase(item.vod_name))
        exactMatch == FindIndex({i \in 1..Len(list) : exact(list[i])})
        containsMatch == FindIndex({i \in 1..Len(list) : contains(list[i])})
    IN  IF exactMatch # 0 THEN exactMatch
        ELSE IF containsMatch # 0 THEN containsMatch
        ELSE 1

MatchResult(source, item, keyword) ==
    [source_key |-> source.key, source_name |-> source.name,
     vod_id |-> item.vod_id, vod_name |-> item.vod_name,
     match_confidence |-> getMatchConfidence(item.vod_name, keyword),
     priority |-> IF source.priority = NoPriority THEN DefaultPriority
                  ELSE source.priority]

\* the try block: Thrown where an awaited promise rejects
searchTry(source, keyword, resp) ==
    IF resp.net # "ok" THEN Thrown                   \* await fetch(...)
    ELSE IF ~ResponseOk(resp.status) THEN Null       \* !response.ok
    ELSE IF resp.body.kind # "json" THEN Thrown      \* await response.json()
    ELSE IF resp.body.code # 1 THEN Null
    ELSE LET list == IF resp.body.hasList THEN resp.body.list ELSE <<>>
         IN  IF Len(list) = 0 THEN Null
             ELSE MatchResult(source, list[bestMatchIndex(list, keyword)],
                              keyword)

\* mutant: no catch block, the rejection reaches the caller
searchRethrow(outcome) == outcome

\* catch (error) { console.error(...); return null; }
searchCatch(outcome) == IF outcome = Thrown THEN Null ELSE outcome

searchSingleSource(source, keyword, resp) ==
    searchCatch(searchTry(source, keyword, resp))

\* the text-first variant of searchSingleSource: it reads response.text(),
\* returns null for a body that starts as an XML or HTML page or that
\* JSON.parse rejects (both are the body kind "html"), and matches against
\* the title without trimming it in the contains step
bestMatchIndexText(list, keyword) ==
    LET exact(item) ==
            Trim(ToLowerCase(item.vod_name)) = Trim(ToLowerCase(keyword))
        contains(item) ==
            \/ Includes(ToLowerCase(item.vod_name), ToLowerCase(keyword))
            \/ Includes(ToLowerCase(keyword), ToLowerCase(item.vod_name))
        exactMatch == FindIndex({i \in 1..Len(list) : exact(list[i])})
        containsMatch == FindIndex({i \in 1..Len(list) : contains(list[i])})
    IN  IF exactMatch # 0 THEN exactMatch
        ELSE IF containsMatch # 0 THEN containsMatch
        ELSE 1

searchSingleSourceText(source, keyword, resp) ==
    IF resp.net # "ok" THEN Null                     \* fetch rejects: catch
    ELSE IF ~ResponseOk(resp.status) THEN Null       \* !response.ok
    ELSE IF resp.body.kind = "aborted" THEN Null     \* text() rejects: catch
    ELSE IF resp.body.kind # "json" THEN Null        \* page prefix, JSON.parse
    ELSE IF \/ resp.body.code # 1
            \/ ~resp.body.hasList
            \/ Len(resp.body.list) = 0 THEN Null
    ELSE MatchResult(source,
                     resp.body.list[bestMatchIndexText(resp.body.list, keyword)],
                     keyword)


(***************************************************************************)
(* State.                                                                  *)
(***************************************************************************)
VARIABLES
    vod_sources,     \* the vod_sources collection (sequence of documents)
    title,           \* searchParams.get('title'); "" when missing
    doubanId,        \* searchParams.get('douban_id')
    pc,              \* GET: "request", "responded" (400/404), "streaming"
    httpStatus,      \* status of the Response GET returned, 0 before
    cleanedTitle,    \* cleanTitleForSearch(title)
    allSources,      \* the snapshot getVodSourcesFromDB() returned
    task,            \* per provider: "fetch", "json", "fulfilled", "rejected"
    response,        \* per provider: what it answered so far
    completedCount,  \* closure variable of start()
    foundCount,      \* closure variable of start()
    events,          \* the chunks enqueued on the stream, in order
    streamState,     \* "none", "readable", "closed", "errored"
    consumerGone,    \* the consumer cancelled the stream
    startState,      \* the promise of start(): "none", "pending", "fulfilled", "rejected"
    slow,            \* keys of the providers whose server never answers
    answers,         \* what a provider may answer: [nets, statuses, bodies]
    admin,           \* the admin interface: [pending, writes]
    other,           \* a second request in the same process, while it waits
    fetchCalls,      \* per provider key: the fetch() calls issued to it
    \* the client (searchPlaySources in page.tsx)
    clientPc,        \* "none", "idle", "fetching", "reading", "ended"
    clientPos,       \* events of the stream the reader has processed
    searchStatus,    \* "idle", "searching", "success", "not_found", "error"
    availableSources,     \* the list shown to the user
    allMatches,           \* local of searchPlaySources: matches as they arrived
    searchedSourceCount,
    totalSourceCount,
    localStorage,    \* the item "multi_source_matches", Null when absent
    \* the iframe player (IframePlayer), Null while none is mounted
    player

serverVars == <<vod_sources, title, doubanId, pc, httpStatus, cleanedTitle,
                allSources, task, response, completedCount, foundCount,
                events, streamState, consumerGone, startState>>

clientVars == <<clientPc, clientPos, searchStatus, availableSources,
                allMatches, searchedSourceCount, totalSourceCount,
                localStorage, player>>

serverVarsButPc == <<vod_sources, title, doubanId, httpStatus, cleanedTitle,
                     allSources, task, response, completedCount, foundCount,
                     events, streamState, consumerGone, startState>>

\* what surrounds the request: the providers, the admin interface, a second
\* request
envVars == <<answers, slow, admin, other, fetchCalls>>

vars == <<serverVars, envVars, clientVars>>

Providers == 1..Len(allSources)

Titles == {"", "T"}

DoubanIds == {"d1"}

(***************************************************************************)
(* The three events of the stream.                                         *)
(***************************************************************************)
InitEvent(id, t, cleaned, total) ==
    [type |-> "init", doubanId |-> id, title |-> t, cleanedTitle |-> cleaned,
     totalSources |-> total]

\* mutant: `completed` read before completedCount++
ResultEventStale(source, match, completed, total) ==
    [type |-> "result", sourceKey |-> source.key, sourceName |-> source.name,
     match |-> match, completed |-> completed - 1, total |-> total]

\* mutant: the callback reads a loop variable shared by all iterations, so
\* every event names the last source of the snapshot
ResultEventSharedSource(source, match, completed, total) ==
    [type |-> "result", sourceKey |-> allSources[Len(allSources)].key,
     sourceName |-> allSources[Len(allSources)].name,
     match |-> match, completed |-> completed, total |-> total]

\* mutant: the result of a provider depends on the douban_id of the request
\* (the match is dropped for every douban_id but "d1")
ResultEventByContext(source, match, completed, total) ==
    [type |-> "result", sourceKey |-> source.key, sourceName |-> source.name,
     match |-> IF doubanId = "d1" THEN match ELSE Null,
     completed |-> completed, total |-> total]

ResultEvent(source, match, completed, total) ==
    [type |-> "result", sourceKey |-> source.key, sourceName |-> source.name,
     match |-> match, completed |-> completed, total |-> total]

\* mutant: the final count is read from the registry again
DoneEventLiveTotal(total, found) ==
    [type |-> "done",
     totalSources |-> Len(getVodSourcesFromDB(vod_sources)),
     foundCount |-> found]

DoneEvent(total, found) ==
    [type |-> "done", totalSources |-> total, foundCount |-> found]

\* ReadableStreamDefaultController.enqueue throws unless the stream is readable
CanEnqueue(state) == state = "readable"

\* mutant: controller.close() left out
CloseMissing(state) == state

\* controller.close()
Close(state) == "closed"

\* mutant: the fetch carries no abort signal
NoTimeoutSignal == FALSE

\* signal: AbortSignal.timeout(15000): an awaited fetch or body read that
\* gets no answer is rejected when the timer fires
TimeoutArmed == TRUE

\* mutant: Promise.any / Promise.race instead of Promise.all
PromiseAnyFulfilled(t) == \E q \in DOMAIN t : t[q] = "fulfilled"

\* await Promise.all(promises) resumes when every task promise is fulfilled
PromiseAllFulfilled(t) == \A q \in DOMAIN t : t[q] = "fulfilled"

\* the answers of the one-request specification: every way a fetch settles,
\* every kind of body
AllAnswers ==
    [nets |-> {"error", "timeout"}, statuses |-> HttpStatuses,
     bodies |-> Bodies]

\* the admin interface has written nothing and no bulk save is in progress
AdminIdle == [pending |-> Null, writes |-> 0]

\* there is no second request
NoSession == [pc |-> "none"]

\* no provider has been sent a request
NoFetchCalls == [k \in Range(ProviderKeys) |-> 0]

\* searchSingleSource is called once for each source of the snapshot, and
\* each call runs to its fetch(apiUrl, ...)
fetchIssued(calls, snapshot) ==
    [k \in DOMAIN calls |->
        calls[k] + Cardinality({i \in 1..Len(snapshot) : snapshot[i].key = k})]

\* no request has been handled yet
ServerIdle ==
    /\ httpStatus = 0
    /\ cleanedTitle = <<>>
    /\ allSources = <<>>
    /\ task = <<>>
    /\ response = <<>>
    /\ completedCount = 0
    /\ foundCount = 0
    /\ events = <<>>
    /\ streamState = "none"
    /\ consumerGone = FALSE
    /\ startState = "none"
    /\ admin = AdminIdle
    /\ other = NoSession
    /\ fetchCalls = NoFetchCalls

\* no page is open
ClientNone ==
    /\ clientPc = "none"
    /\ clientPos = 0
    /\ searchStatus = "idle"
    /\ availableSources = <<>>
    /\ allMatches = <<>>
    /\ searchedSourceCount = 0
    /\ totalSourceCount = 0
    /\ localStorage = Null
    /\ player = Null

\* one request to the endpoint, from any consumer
Init ==
    /\ vod_sources \in Registries
    /\ title \in Titles
    /\ doubanId \in DoubanIds
    /\ pc = "request"
    /\ answers = AllAnswers
    /\ slow = {}
    /\ ServerIdle
    /\ ClientNone

(***************************************************************************)
(* GET: up to the Response it returns.  The ReadableStream constructor     *)
(* runs start() synchronously up to its first await: init is enqueued and  *)
(* every provider task is started (each suspends at its fetch).            *)
(***************************************************************************)
GET ==
    /\ pc = "request"
    /\ UNCHANGED <<vod_sources, title, doubanId, consumerGone, answers, slow,
                   admin, other, clientVars>>
    /\ IF title = ""
       THEN /\ pc' = "responded"
            /\ httpStatus' = 400
            /\ UNCHANGED <<cleanedTitle, allSources, task, response,
                           completedCount, foundCount, events, streamState,
                           startState, fetchCalls>>
       ELSE LET snapshot == getVodSourcesFromDB(vod_sources)
            IN  /\ cleanedTitle' = cleanTitleForSearch(title)
                /\ allSources' = snapshot
                /\ IF Len(snapshot) = 0
                   THEN /\ pc' = "responded"
                        /\ httpStatus' = 404
                        /\ UNCHANGED <<task, response, completedCount,
                                       foundCount, events, streamState,
                                       startState, fetchCalls>>
                   ELSE /\ pc' = "streaming"
                        /\ httpStatus' = 200
                        /\ streamState' = "readable"
                        /\ startState' = "pending"
                        /\ events' = <<InitEvent(doubanId, title,
                                                 cleanTitleForSearch(title),
                                                 Len(snapshot))>>
                        /\ completedCount' = 0
                        /\ foundCount' = 0
                        /\ task' = [p \in 1..Len(snapshot) |-> "fetch"]
                        /\ response' = [p \in 1..Len(snapshot) |-> NoResponse]
                        /\ fetchCalls' = fetchIssued(fetchCalls, snapshot)

(***************************************************************************)
(* The rest of one provider task once searchSingleSource has its answer    *)
(* `resp`: the continuation of allSources.map's callback (try / catch),    *)
(* and, when this was the last task, the continuation of                   *)
(* await Promise.all: done, close.                                         *)
(***************************************************************************)
\* mutant: one abort signal shared by all tasks, fired by the first provider
\* that fails: the providers still in flight are aborted and report null
taskResultSharedAbort(p, resp) ==
    IF \E q \in Providers \ {p} : response[q].net \in {"error", "timeout"}
    THEN Null
    ELSE searchSingleSource(allSources[p], cleanedTitle, resp)

\* mutant: results are collected and sent in one batch, in snapshot order,
\* once every provider has settled
TaskCompletesBatched(p, resp) ==
    LET total == Len(allSources)
        delivered == CanEnqueue(streamState)
        newResponse == [response EXCEPT ![p] = resp]
        newTask == [task EXCEPT ![p] = IF delivered THEN "fulfilled"
                                       ELSE "rejected"]
        result == searchSingleSource(allSources[p], cleanedTitle, resp)
        found == foundCount + (IF result # Null THEN 1 ELSE 0)
        allDone == \A q \in DOMAIN newTask : newTask[q] = "fulfilled"
        batch == [q \in 1..total |->
                    [type |-> "result", sourceKey |-> allSources[q].key,
                     sourceName |-> allSources[q].name,
                     match |-> searchSingleSource(allSources[q], cleanedTitle,
                                                  newResponse[q]),
                     completed |-> q, total |-> total]]
    IN  /\ response' = newResponse
        /\ task' = newTask
        /\ completedCount' = completedCount + 1
        /\ foundCount' = found
        /\ events' = IF delivered /\ allDone
                     THEN events \o batch \o
                          <<[type |-> "done", totalSources |-> total,
                             foundCount |-> found]>>
                     ELSE events
        /\ streamState' = IF delivered /\ allDone THEN "closed"
                          ELSE streamState
        /\ startState' = IF delivered /\ allDone THEN "fulfilled"
                         ELSE IF ~delivered THEN "rejected"
                         ELSE startState
        /\ UNCHANGED <<vod_sources, title, doubanId, pc, httpStatus,
                       cleanedTitle, allSources, consumerGone, envVars,
                       clientVars>>

\* mutant: a high match ends the search; the providers still in flight are
\* aborted and get no result event
TaskCompletesStopOnHigh(p, resp) ==
    LET total == Len(allSources)
        delivered == CanEnqueue(streamState)
        result == searchSingleSource(allSources[p], cleanedTitle, resp)
        isHigh == result # Null /\ result.match_confidence = "high"
        newTask == [q \in DOMAIN task |->
                      IF q = p
                      THEN (IF delivered THEN "fulfilled" ELSE "rejected")
                      ELSE IF isHigh THEN "fulfilled" ELSE task[q]]
        found == foundCount + (IF result # Null THEN 1 ELSE 0)
        allDone == \A q \in DOMAIN newTask : newTask[q] = "fulfilled"
        resultData == [type |-> "result", sourceKey |-> allSources[p].key,
                       sourceName |-> allSources[p].name, match |-> result,
                       completed |-> completedCount + 1, total |-> total]
    IN  /\ response' = [response EXCEPT ![p] = resp]
        /\ task' = newTask
        /\ completedCount' = completedCount + (IF delivered THEN 1 ELSE 2)
        /\ foundCount' = found
        /\ events' = IF ~delivered THEN events
                     ELSE IF allDone
                     THEN events \o <<resultData,
                                      [type |-> "done", totalSources |-> total,
                                       foundCount |-> found]>>
                     ELSE Append(events, resultData)
        /\ streamState' = IF delivered /\ allDone THEN "closed"
                          ELSE streamState
        /\ startState' = IF delivered /\ allDone THEN "fulfilled"
                         ELSE IF ~delivered THEN "rejected"
                         ELSE startState
        /\ UNCHANGED <<vod_sources, title, doubanId, pc, httpStatus,
                       cleanedTitle, allSources, consumerGone, envVars,
                       clientVars>>

\* mutant: a request that was rejected or answered with an error status is
\* sent once more before null is returned
fetchesAfterRetry(calls, key, resp) ==
    IF resp.net # "ok" \/ ~ResponseOk(resp.status)
    THEN [calls EXCEPT ![key] = calls[key] + 1]
    ELSE calls

\* the fetch() calls once searchSingleSource has returned for the provider
\* `key`: on !response.ok, on a bad body and in the catch block it returns
\* null, no path leads back to fetch
fetchesAfter(calls, key, resp) == calls

\* const result = await searchSingleSource(source, cleanedTitle)
taskResult(p, resp) == searchSingleSource(allSources[p], cleanedTitle, resp)

TaskCompletes(p, resp) ==
    LET outcome == taskResult(p, resp)
        \* a rejection of searchSingleSource lands in the callback's catch,
        \* which sends match: null
        result == IF outcome = Thrown THEN Null ELSE outcome
        total == Len(allSources)
        \* try: completedCount++; ...; controller.enqueue(resultData)
        \* catch: completedCount++; ...; controller.enqueue(errorData)
        delivered == CanEnqueue(streamState)
        \* an enqueue that throws in the try block is caught, counted again,
        \* and throws again in the catch block: the task promise rejects
        newTask == [task EXCEPT ![p] = IF delivered THEN "fulfilled"
                                       ELSE "rejected"]
        found == foundCount + (IF result # Null THEN 1 ELSE 0)
        allDone == PromiseAllFulfilled(newTask)
    IN  /\ response' = [response EXCEPT ![p] = resp]
        /\ task' = newTask
        /\ completedCount' =
             completedCount + (IF delivered \/ outcome = Thrown THEN 1 ELSE 2)
        /\ foundCount' = found
        /\ events' =
             IF ~delivered THEN events
             ELSE IF allDone
             THEN events \o <<ResultEvent(allSources[p], result,
                                          completedCount + 1, total),
                              DoneEvent(total, found)>>
             ELSE Append(events, ResultEvent(allSources[p], result,
                                             completedCount + 1, total))
        /\ streamState' = IF delivered /\ allDone THEN Close(streamState)
                          ELSE streamState
        /\ startState' = IF delivered /\ allDone THEN "fulfilled"
                         ELSE IF ~delivered THEN "rejected"
                         ELSE startState
        /\ fetchCalls' = fetchesAfter(fetchCalls, allSources[p].key, resp)
        /\ UNCHANGED <<vod_sources, title, doubanId, pc, httpStatus,
                       cleanedTitle, allSources, consumerGone, answers, slow,
                       admin, other, clientVars>>

\* the fetch of provider p settles: rejected (network error, timeout) or a
\* response with a status line
FetchSettle(p) ==
    /\ pc = "streaming"
    /\ task[p] = "fetch"
    /\ \/ \E net \in answers.nets :
            /\ IF net = "timeout" THEN TimeoutArmed
               ELSE allSources[p].key \notin slow
            /\ TaskCompletes(p, [net |-> net, status |-> 0, body |-> NoBody])
       \/ \E status \in answers.statuses :
            LET resp == [net |-> "ok", status |-> status, body |-> NoBody]
            IN  /\ allSources[p].key \notin slow
                /\ IF ResponseOk(status)
                   THEN /\ task' = [task EXCEPT ![p] = "json"]
                        /\ response' = [response EXCEPT ![p] = resp]
                        /\ UNCHANGED <<vod_sources, title, doubanId, pc,
                                       httpStatus, cleanedTitle, allSources,
                                       completedCount, foundCount, events,
                                       streamState, consumerGone, startState,
                                       envVars, clientVars>>
                   ELSE TaskCompletes(p, resp)

\* response.json() of provider p settles
JsonSettle(p) ==
    /\ pc = "streaming"
    /\ task[p] = "json"
    /\ \E body \in answers.bodies :
            /\ IF body = AbortedBody THEN TimeoutArmed
               ELSE allSources[p].key \notin slow
            /\ TaskCompletes(p, [response[p] EXCEPT !.body = body])

\* the consumer cancels the stream (the client disconnects)
Cancel ==
    /\ streamState = "readable"
    /\ streamState' = "closed"
    /\ consumerGone' = TRUE
    /\ UNCHANGED <<vod_sources, title, doubanId, pc, httpStatus, cleanedTitle,
                   allSources, task, response, completedCount, foundCount,
                   events, startState, envVars, clientVars>>

Next ==
    \/ GET
    \/ \E p \in Providers : FetchSettle(p)
    \/ \E p \in Providers : JsonSettle(p)
    \/ Cancel

Spec == Init /\ [][Next]_vars


(***************************************************************************)
(* The search with providers that may never answer: a provider in `slow`   *)
(* sends nothing (or its headers and then nothing), so its task settles    *)
(* only when the abort timer fires.  Every pending fetch and every pending *)
(* body read settles in the end (the event loop runs whatever is ready),   *)
(* which is the weak fairness of the settle steps.                         *)
(***************************************************************************)
LiveAnswers ==
    [nets |-> {"timeout"}, statuses |-> {200},
     bodies |-> {AbortedBody, JsonBody(1, FALSE, <<>>),
                 JsonBody(1, TRUE, ListHigh)}]

LiveInit ==
    /\ vod_sources \in Registries
    /\ title = "T"
    /\ doubanId \in DoubanIds
    /\ pc = "request"
    /\ answers = LiveAnswers
    /\ slow \in SUBSET {vod_sources[i].key : i \in 1..Len(vod_sources)}
    /\ ServerIdle
    /\ ClientNone

Fairness ==
    /\ WF_vars(GET)
    /\ \A p \in 1..(MaxProviders + 1) :
          /\ WF_vars(p \in Providers /\ FetchSettle(p))
          /\ WF_vars(p \in Providers /\ JsonSettle(p))

LiveSpec == LiveInit /\ [][Next]_vars /\ Fairness

(***************************************************************************)
(* The admin interface writes the registry while searches run              *)
(* (lib/vod-sources-db).  A VodSource handed to a save is                  *)
(* [key, name, priority], priority NoPriority when the field is undefined. *)
(***************************************************************************)
MaxWrites == 2

\* priority: source.priority ?? 0 in saveVodSourceToDB
SaveDefaultPriority == 0

VodSource(key, priority) == [key |-> key, name |-> key, priority |-> priority]

\* the _id of the next inserted document: ObjectIds grow
NextId(collection) ==
    IF collection = <<>> THEN 1
    ELSE 1 + (CHOOSE m \in {collection[i].id : i \in 1..Len(collection)} :
                 \A i \in 1..Len(collection) : collection[i].id <= m)

HasKey(collection, key) == \E i \in 1..Len(collection) : collection[i].key = key

\* updateOne({ key }, { $set: doc }, { upsert: true })
upsertDoc(collection, source, enabled, sortOrder) ==
    LET doc == [id |-> NextId(collection), key |-> source.key,
                name |-> source.name,
                priority |-> IF source.priority = NoPriority
                             THEN SaveDefaultPriority ELSE source.priority,
                enabled |-> enabled, sort_order |-> sortOrder]
    IN  IF HasKey(collection, source.key)
        THEN [i \in 1..Len(collection) |->
                 IF collection[i].key = source.key
                 THEN [doc EXCEPT !.id = collection[i].id]
                 ELSE collection[i]]
        ELSE Append(collection, doc)

\* the documents saveVodSourcesToDB builds: priority ?? index, enabled: true,
\* sort_order: index (indices count from 0)
bulkDocs(sources, firstId) ==
    [i \in 1..Len(sources) |->
        [id |-> firstId + i - 1, key |-> sources[i].key,
         name |-> sources[i].name,
         priority |-> IF sources[i].priority = NoPriority THEN i - 1
                      ELSE sources[i].priority,
         enabled |-> TRUE, sort_order |-> i - 1]]

\* insertMany(docs), ordered: it stops at the first document whose key is
\* already in the collection (unique index on key)
RECURSIVE insertMany(_, _)
insertMany(collection, docs) ==
    IF docs = <<>> THEN collection
    ELSE IF HasKey(collection, docs[1].key) THEN collection
    ELSE insertMany(Append(collection, docs[1]), SubSeq(docs, 2, Len(docs)))

\* what the admin interface saves, deletes and toggles in this model
AdminKeys == {ProviderKeys[1], ProviderKeys[MaxProviders + 1]}

SaveInputs == {VodSource(k, NoPriority) : k \in AdminKeys}

BulkInputs ==
    {<<VodSource(ProviderKeys[2], NoPriority), VodSource(ProviderKeys[1], 5)>>}

AdminUnchanged ==
    UNCHANGED <<title, doubanId, pc, httpStatus, cleanedTitle, allSources,
                task, response, completedCount, foundCount, events,
                streamState, consumerGone, startState, answers, slow, other,
                fetchCalls, clientVars>>

CountWrite == [admin EXCEPT !.writes = admin.writes + 1]

\* saveVodSourceToDB(source)
SaveVodSource(source, enabled) ==
    /\ admin.writes < MaxWrites
    /\ vod_sources' = upsertDoc(vod_sources, source, enabled, 0)
    /\ admin' = CountWrite
    /\ AdminUnchanged

\* deleteVodSourceFromDB(key)
DeleteVodSource(key) ==
    /\ admin.writes < MaxWrites
    /\ HasKey(vod_sources, key)
    /\ vod_sources' = SelectSeq(vod_sources, LAMBDA d : d.key # key)
    /\ admin' = CountWrite
    /\ AdminUnchanged

\* toggleVodSourceEnabled(key, enabled)
ToggleVodSource(key, enabled) ==
    /\ admin.writes < MaxWrites
    /\ HasKey(vod_sources, key)
    /\ vod_sources' = [i \in 1..Len(vod_sources) |->
                          IF vod_sources[i].key = key
                          THEN [vod_sources[i] EXCEPT !.enabled = enabled]
                          ELSE vod_sources[i]]
    /\ admin' = CountWrite
    /\ AdminUnchanged

\* saveVodSourcesToDB(sources), first await: collection.deleteMany({})
BulkSaveDelete(sources) ==
    /\ admin.writes < MaxWrites
    /\ admin.pending = Null
    /\ vod_sources' = <<>>
    /\ admin' = [pending |-> sources, writes |-> admin.writes + 1]
    /\ AdminUnchanged

\* saveVodSourcesToDB(sources), second await: collection.insertMany(docs)
BulkSaveInsert ==
    /\ admin.pending # Null
    /\ vod_sources' =
          insertMany(vod_sources,
                     bulkDocs(admin.pending, NextId(vod_sources)))
    /\ admin' = [admin EXCEPT !.pending = Null]
    /\ AdminUnchanged

AdminWrite ==
    \/ \E source \in SaveInputs, enabled \in BOOLEAN :
          SaveVodSource(source, enabled)
    \/ \E key \in AdminKeys : DeleteVodSource(key)
    \/ \E key \in AdminKeys, enabled \in BOOLEAN : ToggleVodSource(key, enabled)
    \/ \E sources \in BulkInputs : BulkSaveDelete(sources)
    \/ BulkSaveInsert

\* the providers answer at once and with a match, or refuse the connection
AdminAnswers ==
    [nets |-> {"error"}, statuses |-> {200},
     bodies |-> {JsonBody(1, TRUE, ListHigh)}]

\* the registries a search under administration starts from: MaxProviders
\* documents, all enabled or all but the first
AdminRegistries ==
    {r \in Registries :
        Len(r) = MaxProviders /\ \A i \in 2..Len(r) : r[i].enabled}

AdminInit ==
    /\ vod_sources \in AdminRegistries
    /\ title = "T"
    /\ doubanId \in DoubanIds
    /\ pc = "request"
    /\ answers = AdminAnswers
    /\ slow = {}
    /\ ServerIdle
    /\ ClientNone

AdminNext ==
    \/ GET
    \/ \E p \in Providers : FetchSettle(p)
    \/ \E p \in Providers : JsonSettle(p)
    \/ AdminWrite

AdminSpec == AdminInit /\ [][AdminNext]_vars

(***************************************************************************)
(* Two requests in one process.  The event loop runs one continuation at a *)
(* time; the request whose continuation runs is the one the server         *)
(* variables describe, the other one waits in `other` with everything its  *)
(* GET call and the closure of its start() hold.  Switch hands the event   *)
(* loop to the waiting request.                                            *)
(***************************************************************************)
MaxShared == 2

\* what belongs to one request: the locals of GET and of start(controller)
CurrentSession ==
    [title |-> title, doubanId |-> doubanId, pc |-> pc,
     httpStatus |-> httpStatus, cleanedTitle |-> cleanedTitle,
     allSources |-> allSources, task |-> task, response |-> response,
     completedCount |-> completedCount, foundCount |-> foundCount,
     events |-> events, streamState |-> streamState,
     consumerGone |-> consumerGone, startState |-> startState]

\* a second request that has not been handled yet
SecondRequest ==
    [title |-> "U", doubanId |-> "d2", pc |-> "request", httpStatus |-> 0,
     cleanedTitle |-> <<>>, allSources |-> <<>>, task |-> <<>>,
     response |-> <<>>, completedCount |-> 0, foundCount |-> 0,
     events |-> <<>>, streamState |-> "none", consumerGone |-> FALSE,
     startState |-> "none"]

\* a second request for the same title, with another douban_id
SameTitleRequest == [SecondRequest EXCEPT !.title = "T"]

\* mutant: completedCount and foundCount are module-level variables, the
\* two requests count in the same pair
SwitchSharedCounters ==
    /\ other.pc # "none"
    /\ title' = other.title
    /\ doubanId' = other.doubanId
    /\ pc' = other.pc
    /\ httpStatus' = other.httpStatus
    /\ cleanedTitle' = other.cleanedTitle
    /\ allSources' = other.allSources
    /\ task' = other.task
    /\ response' = other.response
    /\ events' = other.events
    /\ streamState' = other.streamState
    /\ consumerGone' = other.consumerGone
    /\ startState' = other.startState
    /\ other' = CurrentSession
    /\ UNCHANGED <<completedCount, foundCount, vod_sources, answers, slow,
                   admin, fetchCalls, clientVars>>

\* the continuation that runs next belongs to the other request
Switch ==
    /\ other.pc # "none"
    /\ title' = other.title
    /\ doubanId' = other.doubanId
    /\ pc' = other.pc
    /\ httpStatus' = other.httpStatus
    /\ cleanedTitle' = other.cleanedTitle
    /\ allSources' = other.allSources
    /\ task' = other.task
    /\ response' = other.response
    /\ completedCount' = other.completedCount
    /\ foundCount' = other.foundCount
    /\ events' = other.events
    /\ streamState' = other.streamState
    /\ consumerGone' = other.consumerGone
    /\ startState' = other.startState
    /\ other' = CurrentSession
    /\ UNCHANGED <<vod_sources, answers, slow, admin, fetchCalls,
                   clientVars>>

\* a provider refuses the connection or answers with a list whose first
\* candidate matches the one title or the other
SharedAnswers ==
    [nets |-> {"error"}, statuses |-> {200},
     bodies |-> {JsonBody(1, TRUE, ListHigh), JsonBody(1, TRUE, ListLow)}]

\* the registry both requests read: MaxShared enabled providers
SharedRegistries ==
    {r \in Registries :
        Len(r) = MaxShared /\ \A i \in 1..Len(r) : r[i].enabled}

ConcurrentInit ==
    /\ vod_sources \in SharedRegistries
    /\ title = "T"
    /\ doubanId \in DoubanIds
    /\ pc = "request"
    /\ answers = SharedAnswers
    /\ slow = {}
    /\ httpStatus = 0
    /\ cleanedTitle = <<>>
    /\ allSources = <<>>
    /\ task = <<>>
    /\ response = <<>>
    /\ completedCount = 0
    /\ foundCount = 0
    /\ events = <<>>
    /\ streamState = "none"
    /\ consumerGone = FALSE
    /\ startState = "none"
    /\ admin = AdminIdle
    /\ other \in {SecondRequest, SameTitleRequest}
    /\ fetchCalls = NoFetchCalls
    /\ ClientNone

ConcurrentNext ==
    \/ GET
    \/ \E p \in Providers : FetchSettle(p)
    \/ \E p \in Providers : JsonSettle(p)
    \/ Switch

ConcurrentSpec == ConcurrentInit /\ [][ConcurrentNext]_vars

(***************************************************************************)
(* The client: searchPlaySources (page.tsx).                               *)
(***************************************************************************)
\* const order = { high: 3, medium: 2, low: 1 }
order(confidence) ==
    CASE confidence = "high" -> 3
      [] confidence = "medium" -> 2
      [] OTHER -> 1

\* mutant: the tie-break puts the lower confidence first
compareMatchesLowFirst(a, b) ==
    IF a.priority # b.priority
    THEN a.priority - b.priority
    ELSE order(a.match_confidence) - order(b.match_confidence)

\* mutant: the comparator looks at the priority only
compareMatchesPriorityOnly(a, b) == a.priority - b.priority

\* the comparator handed to sort: negative when a goes before b
compareMatches(a, b) ==
    IF a.priority # b.priority
    THEN a.priority - b.priority
    ELSE order(b.match_confidence) - order(a.match_confidence)

\* x put into the sorted sequence s, behind every element not after it
InsertSorted(s, x) ==
    LET k == IF \E i \in 1..Len(s) : compareMatches(s[i], x) > 0
             THEN CHOOSE i \in 1..Len(s) :
                     /\ compareMatches(s[i], x) > 0
                     /\ \A j \in 1..(i - 1) : compareMatches(s[j], x) <= 0
             ELSE Len(s) + 1
    IN  SubSeq(s, 1, k - 1) \o <<x>> \o SubSeq(s, k, Len(s))

\* mutant: the view keeps the two best matches only
RECURSIVE sortMatchesTopTwo(_)
sortMatchesTopTwo(matches) ==
    IF matches = <<>> THEN <<>>
    ELSE LET sorted ==
                 InsertSorted(
                     sortMatchesTopTwo(SubSeq(matches, 1, Len(matches) - 1)),
                     matches[Len(matches)])
         IN  SubSeq(sorted, 1, IF Len(sorted) < 2 THEN Len(sorted) ELSE 2)

\* const sorted = [...allMatches].sort((a, b) => ...): Array.prototype.sort
\* is stable, elements that compare equal keep their order
RECURSIVE sortMatches(_)
sortMatches(matches) ==
    IF matches = <<>> THEN <<>>
    ELSE InsertSorted(sortMatches(SubSeq(matches, 1, Len(matches) - 1)),
                      matches[Len(matches)])

\* the answers of the providers a page's search meets
ClientAnswers ==
    [nets |-> {"error"}, statuses |-> {200},
     bodies |-> {JsonBody(1, TRUE, ListHigh), JsonBody(1, TRUE, ListMedium),
                 JsonBody(1, TRUE, ListLow)}]

CachedMatchData(id, matches) == [douban_id |-> id, matches |-> matches]

\* a page is open and has not searched yet
ClientInit ==
    /\ vod_sources \in Registries
    /\ title = "T"
    /\ doubanId \in DoubanIds
    /\ pc = "none"
    /\ answers = ClientAnswers
    /\ slow = {}
    /\ ServerIdle
    /\ clientPc = "idle"
    /\ clientPos = 0
    /\ searchStatus = "idle"
    /\ availableSources = <<>>
    /\ allMatches = <<>>
    /\ searchedSourceCount = 0
    /\ totalSourceCount = 0
    /\ localStorage = Null
    /\ player = Null

\* searchPlaySources(false), up to its fetch
ClientSearch ==
    /\ clientPc = "idle"
    /\ UNCHANGED <<serverVarsButPc, envVars, localStorage, clientPos,
                   allMatches, player>>
    /\ IF localStorage # Null /\ localStorage.douban_id = doubanId
          /\ Len(localStorage.matches) > 0
       THEN /\ availableSources' = localStorage.matches
            /\ searchStatus' = "success"
            /\ clientPc' = "ended"
            /\ UNCHANGED <<pc, searchedSourceCount, totalSourceCount>>
       ELSE /\ searchStatus' = "searching"
            /\ availableSources' = <<>>
            /\ searchedSourceCount' = 0
            /\ totalSourceCount' = 0
            /\ pc' = "request"
            /\ clientPc' = "fetching"

\* mutant: response.ok is not looked at, every response is read as a stream
ClientResponseUnchecked ==
    /\ clientPc = "fetching"
    /\ httpStatus # 0
    /\ UNCHANGED <<serverVars, envVars, localStorage, clientPos,
                   availableSources, searchedSourceCount, totalSourceCount,
                   searchStatus, player>>
    /\ clientPc' = "reading"
    /\ allMatches' = <<>>

\* the fetch resolves with the Response of GET
ClientResponse ==
    /\ clientPc = "fetching"
    /\ httpStatus # 0
    /\ UNCHANGED <<serverVars, envVars, localStorage, clientPos,
                   availableSources, searchedSourceCount, totalSourceCount,
                   player>>
    /\ IF ~ResponseOk(httpStatus)
       THEN /\ searchStatus' = "error"
            /\ clientPc' = "ended"
            /\ UNCHANGED allMatches
       ELSE /\ clientPc' = "reading"
            /\ allMatches' = <<>>
            /\ UNCHANGED searchStatus

\* the reader gets the next event of the stream and handles it
ClientRead ==
    /\ clientPc = "reading"
    /\ clientPos < Len(events)
    /\ clientPos' = clientPos + 1
    /\ UNCHANGED <<serverVars, envVars, clientPc, player>>
    /\ LET data == events[clientPos + 1]
       IN  CASE data.type = "init" ->
                  /\ totalSourceCount' = data.totalSources
                  /\ UNCHANGED <<searchStatus, availableSources, allMatches,
                                 searchedSourceCount, localStorage>>
             [] data.type = "result" ->
                  /\ searchedSourceCount' = data.completed
                  /\ UNCHANGED <<totalSourceCount, localStorage>>
                  /\ IF data.match # Null
                     THEN /\ allMatches' = Append(allMatches, data.match)
                          /\ availableSources' =
                               sortMatches(Append(allMatches, data.match))
                          /\ searchStatus' =
                               IF Len(allMatches) = 0 THEN "success"
                               ELSE searchStatus
                     ELSE UNCHANGED <<allMatches, availableSources,
                                      searchStatus>>
             [] OTHER ->
                  /\ UNCHANGED <<availableSources, allMatches,
                                 searchedSourceCount, totalSourceCount>>
                  /\ IF Len(allMatches) > 0
                     THEN /\ localStorage' =
                               CachedMatchData(doubanId, allMatches)
                          /\ searchStatus' = "success"
                     ELSE /\ searchStatus' = "not_found"
                          /\ UNCHANGED localStorage

\* reader.read() reports the end of the stream: break
ClientStreamEnd ==
    /\ clientPc = "reading"
    /\ clientPos = Len(events)
    /\ streamState = "closed"
    /\ clientPc' = "ended"
    /\ UNCHANGED <<serverVars, envVars, clientPos, searchStatus,
                   availableSources, allMatches, searchedSourceCount,
                   totalSourceCount, localStorage, player>>

ClientNext ==
    \/ ClientSearch
    \/ GET
    \/ \E p \in Providers : FetchSettle(p)
    \/ \E p \in Providers : JsonSettle(p)
    \/ ClientResponse
    \/ ClientRead
    \/ ClientStreamEnd

ClientSpec == ClientInit /\ [][ClientNext]_vars


(***************************************************************************)
(* Reading the stream of one search.                                       *)
(***************************************************************************)
ResultPositions == {i \in 1..Len(events) : events[i].type = "result"}

DonePositions == {i \in 1..Len(events) : events[i].type = "done"}

HasDone == DonePositions # {}

\* the result events in emission order
ResultEventSeq == SelectSeq(events, LAMBDA e : e.type = "result")

\* provider p has its result event on the stream
HasResultEvent(p) ==
    \E i \in ResultPositions : events[i].sourceKey = allSources[p].key

Settled(p) == task[p] \in {"fulfilled", "rejected"}

InFlight(p) == task[p] \in {"fetch", "json"}

(***************************************************************************)
(* C1: a search over N >= 1 providers emits exactly N result events; the   *)
(* k-th carries completed = k and total = N, and the last one before done  *)
(* carries completed = total = N, whatever the order of the completions.   *)
(***************************************************************************)
C1_ResultAccounting ==
    LET results == ResultEventSeq
        N == Len(allSources)
    IN  /\ Len(results) <= N
        /\ \A k \in 1..Len(results) :
              results[k].completed = k /\ results[k].total = N
        /\ HasDone =>
              /\ Len(results) = N
              /\ results[N].completed = N
              /\ results[N].total = N
              /\ events[Len(events) - 1] = results[N]
        /\ (pc = "streaming" /\ ~consumerGone /\ \A p \in Providers : Settled(p))
              => Len(results) = N

\* three providers answered in an order that is not the snapshot's
C1_Witness ==
    /\ HasDone
    /\ Len(allSources) = 3
    /\ ResultEventSeq[1].sourceKey = allSources[3].key
    /\ ResultEventSeq[3].sourceKey = allSources[1].key

(***************************************************************************)
(* C2: the stream is init (once, first), then only result events, then one *)
(* done, after which it is closed and nothing more is emitted.             *)
(***************************************************************************)
C2_EventOrder ==
    /\ pc \in {"none", "request", "responded"} => events = <<>>
    /\ pc = "streaming" =>
          /\ Len(events) >= 1
          /\ events[1].type = "init"
    /\ \A i \in 2..Len(events) : events[i].type \in {"result", "done"}
    /\ \A i \in DonePositions : i = Len(events)
    /\ HasDone =>
          /\ streamState = "closed"
          /\ startState = "fulfilled"
          /\ \A p \in Providers : task[p] = "fulfilled"

C2_Witness ==
    /\ HasDone
    /\ Len(events) = 4
    /\ events[2].type = "result"
    /\ events[3].type = "result"

(***************************************************************************)
(* C3: results are delivered as each provider settles, not as a batch: the *)
(* step in which a provider's task settles appends that provider's result  *)
(* event to the stream, behind the events already there, whatever the      *)
(* other providers are doing.                                              *)
(***************************************************************************)
C3_DeliveredAsSettled ==
    [][\A p \in Providers :
          (pc = "streaming" /\ InFlight(p) /\ task'[p] = "fulfilled") =>
              /\ Len(events') > Len(events)
              /\ SubSeq(events', 1, Len(events)) = events
              /\ events'[Len(events) + 1].type = "result"
              /\ events'[Len(events) + 1].sourceKey = allSources[p].key
              /\ events'[Len(events) + 1].match = taskResult(p, response'[p])]_vars

\* a match is on the stream while another provider is still in flight
C3_Witness ==
    /\ ~HasDone
    /\ \E i \in ResultPositions : events[i].match # Null
    /\ \E p \in Providers : InFlight(p)

\* the provider whose key is k
ProviderOf(k) == CHOOSE p \in Providers : allSources[p].key = k

FailedResponse(resp) ==
    \/ resp.net \in {"error", "timeout"}
    \/ resp.net = "ok" /\ ~ResponseOk(resp.status)
    \/ resp.net = "ok" /\ resp.body.kind \in {"html", "aborted"}

(***************************************************************************)
(* C4: provider isolation.  The match of every result event is decided by  *)
(* that provider's own answer alone; a failing provider makes no task and  *)
(* no search reject (only an enqueue on a stream the consumer cancelled    *)
(* does), and done.foundCount is the number of providers whose own answer  *)
(* holds a match.                                                          *)
(***************************************************************************)
C4_ProviderIsolation ==
    pc = "streaming" =>
        /\ \A i \in ResultPositions :
              LET p == ProviderOf(events[i].sourceKey)
              IN  events[i].match =
                     searchSingleSource(allSources[p], cleanedTitle, response[p])
        /\ \A p \in Providers : task[p] = "rejected" => consumerGone
        /\ startState = "rejected" => consumerGone
        /\ \A p \in Providers :
              (FailedResponse(response[p]) /\ task[p] = "fulfilled") =>
                  \E i \in ResultPositions :
                      /\ events[i].sourceKey = allSources[p].key
                      /\ events[i].match = Null
        /\ HasDone =>
              events[Len(events)].foundCount =
                 Cardinality({p \in Providers :
                     searchSingleSource(allSources[p], cleanedTitle,
                                        response[p]) # Null})

\* one provider of three timed out first, the two others matched afterwards
C4_Witness ==
    /\ HasDone
    /\ Len(allSources) = 3
    /\ events[2].match = Null
    /\ response[ProviderOf(events[2].sourceKey)].net = "timeout"
    /\ events[3].match # Null
    /\ events[4].match # Null
    /\ events[Len(events)].foundCount = 2

(***************************************************************************)
(* C5: done is emitted only after every provider task of the snapshot has  *)
(* settled; its totalSources is the snapshot size announced by init and    *)
(* its foundCount is the number of result events with a non-null match.    *)
(***************************************************************************)
C5_DoneAfterAllSettled ==
    HasDone =>
        LET done == events[Len(events)]
        IN  /\ \A p \in Providers : Settled(p) /\ HasResultEvent(p)
            /\ done.totalSources = events[1].totalSources
            /\ done.totalSources = Len(allSources)
            /\ done.foundCount =
                 Cardinality({i \in ResultPositions : events[i].match # Null})

\* done after three results of which exactly one holds a match
C5_Witness ==
    /\ HasDone
    /\ Cardinality(ResultPositions) = 3
    /\ events[Len(events)].foundCount = 1

(***************************************************************************)
(* C6: every search that emitted init eventually emits done, unless its    *)
(* consumer cancelled the stream; a provider that times out only delays    *)
(* done: its result is null, nothing rejects, and foundCount counts the    *)
(* matches of the providers that answered.                                 *)
(***************************************************************************)
C6_DoneEventually ==
    /\ (pc = "streaming") ~> (HasDone \/ consumerGone)
    /\ [](HasDone =>
            /\ startState = "fulfilled"
            /\ \A p \in Providers :
                  response[p].net = "timeout" \/ response[p].body = AbortedBody
                      => \E i \in ResultPositions :
                            /\ events[i].sourceKey = allSources[p].key
                            /\ events[i].match = Null
            /\ events[Len(events)].foundCount =
                  Cardinality({p \in Providers :
                      response[p].net = "ok"
                      /\ response[p].body = JsonBody(1, TRUE, ListHigh)}))

\* of three providers the one that never answers timed out, after the two
\* others had matched
C6_Witness ==
    /\ HasDone
    /\ Len(allSources) = 3
    /\ Cardinality(slow) = 1
    /\ events[4].sourceKey \in slow
    /\ response[ProviderOf(events[4].sourceKey)].net = "timeout"
    /\ events[Len(events)].foundCount = 2

(***************************************************************************)
(* C7: when the snapshot holds no enabled provider the search fails at     *)
(* once with the terminal 404 'No video sources configured': no stream is  *)
(* opened, no init, result or done event is emitted and no provider task   *)
(* is started.                                                             *)
(***************************************************************************)
NoEnabledProvider ==
    \A i \in 1..Len(vod_sources) : ~vod_sources[i].enabled

C7_NoProvidersFailsFast ==
    (pc # "request" /\ title # "" /\ NoEnabledProvider) =>
        /\ pc = "responded"
        /\ httpStatus = 404
        /\ allSources = <<>>
        /\ events = <<>>
        /\ task = <<>>
        /\ streamState = "none"
        /\ startState = "none"

\* three providers are registered and all of them are disabled
C7_Witness ==
    /\ pc = "responded"
    /\ httpStatus = 404
    /\ Len(vod_sources) = 3
    /\ NoEnabledProvider

(***************************************************************************)
(* C8: the query adapter never throws.  For a network error, a timeout, a  *)
(* non-2xx status, a 200 whose body is a page or not parseable, a success  *)
(* marker that is absent or not 1, and an absent or empty list, both       *)
(* variants of searchSingleSource return null, and the orchestrator sends  *)
(* for each of them the same result event: match null, counted in          *)
(* completed.                                                              *)
(***************************************************************************)
AdapterFailure(resp) ==
    \/ FailedResponse(resp)
    \/ /\ resp.net = "ok"
       /\ ResponseOk(resp.status)
       /\ resp.body.kind = "json"
       /\ \/ resp.body.code # 1
          \/ ~resp.body.hasList
          \/ resp.body.list = <<>>

C8_AdapterNeverThrows ==
    pc = "streaming" =>
        \A p \in Providers : Settled(p) =>
            LET direct == searchSingleSource(allSources[p], cleanedTitle,
                                             response[p])
                text == searchSingleSourceText(allSources[p], cleanedTitle,
                                               response[p])
            IN  /\ direct # Thrown
                /\ text # Thrown
                /\ AdapterFailure(response[p]) =>
                      /\ direct = Null
                      /\ text = Null
                      /\ task[p] = "fulfilled" =>
                            \E i \in ResultPositions :
                                events[i] =
                                    ResultEvent(allSources[p], Null,
                                                Cardinality({j \in ResultPositions : j <= i}),
                                                Len(allSources))

\* three providers failed in three ways (a page served with 200, a body
\* without the success marker, an empty list) and the search ended with
\* three null results
C8_Witness ==
    /\ HasDone
    /\ Len(allSources) = 3
    /\ \A i \in ResultPositions : events[i].match = Null
    /\ \E p \in Providers : response[p].body = HtmlBody
    /\ \E p \in Providers : response[p].body = JsonBody(0, FALSE, <<>>)
    /\ \E p \in Providers : response[p].body = JsonBody(1, TRUE, <<>>)
    /\ events[Len(events)].foundCount = 0

(***************************************************************************)
(* C9: while the page reads the stream, after every arrival of a non-null  *)
(* match the view (availableSources) holds exactly the matches received so *)
(* far, ordered by priority ascending and, within one priority, by         *)
(* confidence high, medium, low: priority dominates confidence, whatever   *)
(* the order of arrival.                                                   *)
(***************************************************************************)
RankedBefore(a, b) ==
    \/ a.priority < b.priority
    \/ a.priority = b.priority
         /\ order(a.match_confidence) >= order(b.match_confidence)

C9_ViewOrdered ==
    (clientPc = "reading" /\ allMatches # <<>>) =>
        /\ Len(availableSources) = Len(allMatches)
        /\ Range(availableSources) = Range(allMatches)
        /\ \A i, j \in 1..Len(availableSources) :
              i < j => RankedBefore(availableSources[i], availableSources[j])

\* the matches arrived as (1, low), (1, high), (0, medium) and the view
\* shows (0, medium), (1, high), (1, low)
C9_Witness ==
    /\ clientPc = "reading"
    /\ Len(allMatches) = 3
    /\ <<allMatches[1].priority, allMatches[1].match_confidence>> = <<1, "low">>
    /\ <<allMatches[2].priority, allMatches[2].match_confidence>> = <<1, "high">>
    /\ <<allMatches[3].priority, allMatches[3].match_confidence>> = <<0, "medium">>
    /\ availableSources = <<allMatches[3], allMatches[2], allMatches[1]>>

(***************************************************************************)
(* C10: ranking stability.  When the matches received have pairwise        *)
(* distinct (priority, confidence) pairs, the view is the same sequence    *)
(* for every order in which those matches could have arrived.              *)
(***************************************************************************)
RankKey(m) == <<m.priority, m.match_confidence>>

DistinctRankKeys(matches) ==
    \A i, j \in 1..Len(matches) :
        i # j => RankKey(matches[i]) # RankKey(matches[j])

\* the sequences that hold the elements of matches in another order
Arrivals(matches) ==
    {[i \in 1..Len(matches) |-> matches[f[i]]] :
        f \in Permutations(1..Len(matches))}

C10_ArrivalOrderIrrelevant ==
    (clientPc = "reading" /\ DistinctRankKeys(allMatches)) =>
        \A arrival \in Arrivals(allMatches) :
            sortMatches(arrival) = availableSources

\* three matches with distinct keys arrived in an order that is neither the
\* ranked one nor its reverse
C10_Witness ==
    /\ clientPc = "reading"
    /\ Len(allMatches) = 3
    /\ DistinctRankKeys(allMatches)
    /\ availableSources = <<allMatches[2], allMatches[3], allMatches[1]>>
    /\ availableSources[2].priority = availableSources[3].priority

(***************************************************************************)
(* C11: the view a consumer reads during the stream against the later      *)
(* views of the same search.  As claimed: every view is a prefix of the    *)
(* final sorted order, that is, of every later view (C11_ViewIsPrefix).    *)
(* As amended: every view is a subsequence of every later view, the        *)
(* matches received so far in the relative order the final order gives     *)
(* them (C11_ViewIsSubsequence).                                           *)
(***************************************************************************)
IsPrefix(s, t) == Len(s) <= Len(t) /\ SubSeq(t, 1, Len(s)) = s

PositionIn(t, x) == CHOOSE k \in 1..Len(t) : t[k] = x

\* s and t have no repeated element
IsSubsequence(s, t) ==
    /\ Range(s) \subseteq Range(t)
    /\ \A i, j \in 1..Len(s) :
          i < j => PositionIn(t, s[i]) < PositionIn(t, s[j])

\* C11 as claimed: each arrival leaves the earlier view as a prefix of the
\* new view
C11_ViewIsPrefix ==
    [][(clientPc = "reading" /\ clientPc' = "reading")
          => IsPrefix(availableSources, availableSources')]_vars

\* C11 as amended: each arrival leaves the earlier view as a subsequence of
\* the new view, and the view grows by the arrived match only
C11_ViewIsSubsequence ==
    [][(clientPc = "reading" /\ clientPc' = "reading")
          => /\ IsSubsequence(availableSources, availableSources')
             /\ Range(availableSources') = Range(allMatches')]_vars

\* the match that arrived second is shown before the one that arrived first
C11_Witness ==
    /\ clientPc = "reading"
    /\ Len(allMatches) = 2
    /\ availableSources = <<allMatches[2], allMatches[1]>>

(***************************************************************************)
(* C12: at most one MatchResult per provider per search.  The result       *)
(* events of one search name pairwise different providers of the snapshot, *)
(* a non-null match belongs to the provider its event names, and once the  *)
(* search is done every provider of the snapshot has exactly one event; a  *)
(* provider without a usable candidate contributes a null match that is    *)
(* still counted in completed.                                             *)
(***************************************************************************)
SnapshotKeys == {allSources[p].key : p \in Providers}

NoCandidate(resp) ==
    /\ resp.net = "ok"
    /\ ResponseOk(resp.status)
    /\ resp.body.kind = "json"
    /\ resp.body.code = 1
    /\ (~resp.body.hasList \/ resp.body.list = <<>>)

C12_OneResultPerProvider ==
    pc = "streaming" =>
        /\ \A i, j \in ResultPositions :
              i # j => events[i].sourceKey # events[j].sourceKey
        /\ \A i \in ResultPositions :
              /\ events[i].sourceKey \in SnapshotKeys
              /\ events[i].match # Null
                    => events[i].match.source_key = events[i].sourceKey
        /\ HasDone =>
              {events[i].sourceKey : i \in ResultPositions} = SnapshotKeys
        /\ \A p \in Providers :
              (task[p] = "fulfilled" /\ NoCandidate(response[p])) =>
                  \E i \in ResultPositions :
                      /\ events[i].sourceKey = allSources[p].key
                      /\ events[i].match = Null
                      /\ events[i].completed =
                            Cardinality({j \in ResultPositions : j <= i})

\* of three providers the second to answer had an empty list, the two others
\* matched: three events, three keys, two matches
C12_Witness ==
    /\ HasDone
    /\ Len(allSources) = 3
    /\ NoCandidate(response[ProviderOf(events[3].sourceKey)])
    /\ events[3].match = Null
    /\ events[3].completed = 2
    /\ events[2].match # Null
    /\ events[4].match # Null
    /\ events[4].completed = 3

(***************************************************************************)
(* C13: a consumer that cancels the stream is no error of the search:      *)
(* later deliveries are dropped silently, nothing throws inside the        *)
(* search, and every provider task in flight still runs to completion.     *)
(* The code does not keep this: controller.enqueue throws on the cancelled *)
(* stream, in the try block and again in the catch block, so the callback  *)
(* of the provider rejects and with it Promise.all and start().            *)
(***************************************************************************)
C13_DisconnectIsSilent ==
    consumerGone =>
        /\ \A p \in Providers : task[p] # "rejected"
        /\ startState # "rejected"

(***************************************************************************)
(* C14: with or without a listener, completedCount has been incremented    *)
(* exactly once for each settled provider and never exceeds the number of  *)
(* providers.  The code does not keep this: after the consumer cancelled,  *)
(* the enqueue in the try block throws behind the first completedCount++   *)
(* and the catch block increments a second time.                           *)
(***************************************************************************)
C14_CountedOncePerProvider ==
    pc = "streaming" =>
        /\ completedCount = Cardinality({p \in Providers : Settled(p)})
        /\ completedCount <= Len(allSources)

(***************************************************************************)
(* C15: a high match of one provider cancels nothing.  Every provider of   *)
(* the snapshot is queried until it answers, and as long as the consumer   *)
(* listens every provider that settled has its own result event, whatever  *)
(* the confidence of the results sent before; at done all of them have.    *)
(***************************************************************************)
HighSent ==
    \E i \in ResultPositions :
        events[i].match # Null /\ events[i].match.match_confidence = "high"

C15_NoCancelOnHigh ==
    pc = "streaming" =>
        /\ \A p \in Providers : Settled(p) => response[p].net # "pending"
        /\ ~consumerGone =>
              \A p \in Providers : Settled(p) => HasResultEvent(p)
        /\ HasDone => \A p \in Providers : HasResultEvent(p)
        /\ (HighSent /\ ~HasDone /\ ~consumerGone) =>
              \E p \in Providers : InFlight(p)

\* the first provider to answer matched with high confidence; the two others
\* answered afterwards and got their events, a low match and a null
C15_Witness ==
    /\ HasDone
    /\ ~consumerGone
    /\ Len(allSources) = 3
    /\ events[2].match # Null
    /\ events[2].match.match_confidence = "high"
    /\ events[3].match # Null
    /\ events[3].match.match_confidence = "low"
    /\ events[4].match = Null

(***************************************************************************)
(* C16: a search works on the snapshot of the enabled providers it took at *)
(* its start.  While the registry is written (a provider saved, deleted,   *)
(* toggled, the list replaced in bulk), the providers queried stay those   *)
(* of the snapshot and the totals of init, of every result and of done     *)
(* are the size of the snapshot.                                           *)
(***************************************************************************)
TotalOf(e) == IF e.type = "result" THEN e.total ELSE e.totalSources

C16_SnapshotFrozen ==
    [][pc = "streaming" =>
          /\ allSources' = allSources
          /\ DOMAIN task' = DOMAIN task
          /\ \A i \in 1..Len(events') : TotalOf(events'[i]) = Len(allSources)
          /\ \A i \in 1..Len(events') :
                events'[i].type = "result"
                    => events'[i].sourceKey \in SnapshotKeys]_vars

\* a search over three providers has sent its first result and two are in
\* flight; since it started, one provider of the snapshot was deleted and a
\* new key was added to the registry
C16_Witness ==
    /\ pc = "streaming"
    /\ ~HasDone
    /\ Len(allSources) = 3
    /\ Cardinality(ResultPositions) = 1
    /\ events[2].total = 3
    /\ admin.writes = 2
    /\ \E k \in SnapshotKeys : ~HasKey(vod_sources, k)
    /\ \E i \in 1..Len(vod_sources) :
          vod_sources[i].enabled /\ vod_sources[i].key \notin SnapshotKeys

(***************************************************************************)
(* C17: a provider stored without a priority sorts as if its priority were *)
(* 999: the match a search delivers for it carries priority 999 and ranks  *)
(* behind every match of a provider with an explicit priority below 999.   *)
(* The code does not keep this: docToVodSource turns the missing priority  *)
(* into 0 before searchSingleSource applies its default of 999.            *)
(***************************************************************************)
\* the registry document of the provider with key k
DocOf(k) ==
    vod_sources[CHOOSE i \in 1..Len(vod_sources) : vod_sources[i].key = k]

C17_UnsetPriorityIsLast ==
    pc = "streaming" =>
        \A i \in ResultPositions :
            (events[i].match # Null
               /\ DocOf(events[i].sourceKey).priority = NoPriority) =>
                /\ events[i].match.priority = DefaultPriority
                /\ \A j \in ResultPositions :
                      (events[j].match # Null
                         /\ DocOf(events[j].sourceKey).priority # NoPriority
                         /\ DocOf(events[j].sourceKey).priority < DefaultPriority)
                          => compareMatches(events[j].match, events[i].match) < 0

(***************************************************************************)
(* C18: two searches interleaved in one process are independent.  The      *)
(* counters and the event sequence of each are what that search gives      *)
(* alone: its own init, the results of its own providers decided by its    *)
(* own keyword and their answers and numbered 1, 2, ... in its own order   *)
(* of completion, and its own done; nothing of one search shows in the     *)
(* other.                                                                  *)
(***************************************************************************)
SessionResults(s) == SelectSeq(s.events, LAMBDA e : e.type = "result")

SessionFulfilled(s) == {p \in 1..Len(s.allSources) : s.task[p] = "fulfilled"}

SessionMatch(s, p) ==
    searchSingleSource(s.allSources[p], s.cleanedTitle, s.response[p])

RunsAsAlone(s) ==
    s.pc = "streaming" =>
        LET results == SessionResults(s)
            N == Len(s.allSources)
            found == Cardinality({p \in SessionFulfilled(s) :
                                     SessionMatch(s, p) # Null})
            allDone == SessionFulfilled(s) = 1..N
        IN  /\ s.cleanedTitle = cleanTitleForSearch(s.title)
            /\ s.events[1] = InitEvent(s.doubanId, s.title, s.cleanedTitle, N)
            /\ s.completedCount = Cardinality(SessionFulfilled(s))
            /\ s.foundCount = found
            /\ Len(results) = s.completedCount
            /\ \A k \in 1..Len(results) :
                  \E p \in SessionFulfilled(s) :
                      results[k] = ResultEvent(s.allSources[p],
                                               SessionMatch(s, p), k, N)
            /\ Len(s.events) = 1 + Len(results) + (IF allDone THEN 1 ELSE 0)
            /\ allDone => s.events[Len(s.events)] = DoneEvent(N, found)

C18_SearchesIndependent ==
    other.pc # "none" => RunsAsAlone(CurrentSession) /\ RunsAsAlone(other)

\* both searches are under way with one result sent each, for the same
\* provider and the same answer: a high match in the one, a low match in
\* the other, each numbered 1 of 2
C18_Witness ==
    /\ pc = "streaming"
    /\ other.pc = "streaming"
    /\ Len(events) = 2
    /\ Len(other.events) = 2
    /\ events[2].sourceKey = other.events[2].sourceKey
    /\ events[2].completed = 1
    /\ other.events[2].completed = 1
    /\ events[2].match # Null
    /\ other.events[2].match # Null
    /\ \E p \in Providers :
          /\ allSources[p].key = events[2].sourceKey
          /\ other.allSources[p].key = events[2].sourceKey
          /\ response[p] = other.response[p]
    /\ events[2].match.match_confidence = "high"
    /\ other.events[2].match.match_confidence = "low"

(***************************************************************************)
(* C19: the caller tells three outcomes apart.  A configuration error      *)
(* gives no stream and the page ends in 'error', as for every non-OK       *)
(* response; once the page has processed done, its status is 'success'     *)
(* exactly when it received at least one non-null match, which is exactly  *)
(* when done carries foundCount > 0, and 'not_found' otherwise.            *)
(***************************************************************************)
DoneProcessed == HasDone /\ clientPos = Len(events)

NonNullMatches ==
    LET hits == SelectSeq(events, LAMBDA e : e.type = "result" /\ e.match # Null)
    IN  [i \in 1..Len(hits) |-> hits[i].match]

C19_ThreeOutcomes ==
    /\ (clientPc \in {"reading", "ended"} /\ ~ResponseOk(httpStatus)) =>
          /\ searchStatus = "error"
          /\ clientPc = "ended"
          /\ events = <<>>
          /\ availableSources = <<>>
    /\ (clientPc \in {"reading", "ended"} /\ DoneProcessed) =>
          /\ allMatches = NonNullMatches
          /\ searchStatus \in {"success", "not_found"}
          /\ searchStatus = "success" <=> Len(allMatches) > 0
          /\ searchStatus = "success" <=> events[Len(events)].foundCount > 0
          /\ searchStatus = "not_found" <=> availableSources = <<>>
    /\ clientPc = "ended" => searchStatus \in {"success", "not_found", "error"}

\* three providers were searched, none matched, and the page shows
\* 'not_found' with the progress at 3 of 3
C19_Witness ==
    /\ clientPc = "ended"
    /\ DoneProcessed
    /\ Len(allSources) = 3
    /\ events[Len(events)].foundCount = 0
    /\ searchStatus = "not_found"
    /\ searchedSourceCount = 3
    /\ totalSourceCount = 3

(***************************************************************************)
(* C20: disabled providers are left out of every search.  No task is       *)
(* started and no result event is sent for a provider whose document was   *)
(* disabled when the snapshot was taken, and init.totalSources is the      *)
(* number of enabled documents.                                            *)
(***************************************************************************)
DisabledKeys ==
    {vod_sources[i].key : i \in {j \in 1..Len(vod_sources) :
                                    ~vod_sources[j].enabled}}

EnabledCount ==
    Cardinality({i \in 1..Len(vod_sources) : vod_sources[i].enabled})

C20_DisabledExcluded ==
    pc = "streaming" =>
        /\ SnapshotKeys \cap DisabledKeys = {}
        /\ Len(allSources) = EnabledCount
        /\ DOMAIN task = 1..EnabledCount
        /\ events[1].totalSources = EnabledCount
        /\ \A i \in ResultPositions :
              /\ events[i].sourceKey \notin DisabledKeys
              /\ events[i].total = EnabledCount
        /\ HasDone => events[Len(events)].totalSources = EnabledCount

\* of three registered providers the second is disabled: the search ran over
\* the two others and ended with two results
C20_Witness ==
    /\ HasDone
    /\ Len(vod_sources) = 3
    /\ DisabledKeys = {vod_sources[2].key}
    /\ events[1].totalSources = 2
    /\ Cardinality(ResultPositions) = 2
    /\ events[Len(events)].totalSources = 2

(***************************************************************************)
(* C21: the douban_id of a request has no effect on the search.  Two       *)
(* searches for the same title over the same snapshot whose providers gave *)
(* the same answers and completed in the same order have the same events,  *)
(* but for the douban_id their init events echo.                           *)
(***************************************************************************)
WithoutContext(e) == IF e.type = "init" THEN [e EXCEPT !.doubanId = ""] ELSE e

EventsWithoutContext(evs) == [i \in 1..Len(evs) |-> WithoutContext(evs[i])]

\* the providers of session s in the order in which they completed
CompletionOrder(s) ==
    LET results == SessionResults(s)
    IN  [k \in 1..Len(results) |-> results[k].sourceKey]

SameSearchButContext ==
    /\ pc = "streaming"
    /\ other.pc = "streaming"
    /\ title = other.title
    /\ doubanId # other.doubanId
    /\ allSources = other.allSources
    /\ task = other.task
    /\ \A p \in Providers : Settled(p) => response[p] = other.response[p]
    /\ Len(events) = Len(other.events)
    /\ CompletionOrder(CurrentSession) = CompletionOrder(other)

C21_ContextHasNoEffect ==
    SameSearchButContext =>
        /\ EventsWithoutContext(events) = EventsWithoutContext(other.events)
        /\ events[1].doubanId = doubanId
        /\ other.events[1].doubanId = other.doubanId
        /\ completedCount = other.completedCount
        /\ foundCount = other.foundCount

\* two searches for "T" with different douban_id have ended; in both, the
\* same provider answered first with a match and the other refused the
\* connection
C21_Witness ==
    /\ SameSearchButContext
    /\ HasDone
    /\ Len(allSources) = 2
    /\ events[2].match # Null
    /\ events[3].match = Null
    /\ other.events[2].match # Null
    /\ other.events[1].doubanId = "d2"
    /\ events[1].doubanId = "d1"

(***************************************************************************)
(* C22: when a later result arrives, two results already in the sorted     *)
(* view keep their relative order and no result leaves the view: each      *)
(* view contains the view before it as a subsequence.                      *)
(***************************************************************************)
KeepsOrder(before, after) ==
    \A a, b \in Range(before) :
        PositionIn(before, a) < PositionIn(before, b)
            => /\ a \in Range(after)
               /\ b \in Range(after)
               /\ PositionIn(after, a) < PositionIn(after, b)

C22_ViewGrowsInOrder ==
    [][(clientPc = "reading" /\ clientPc' = "reading") =>
          /\ Range(availableSources) \subseteq Range(availableSources')
          /\ Len(availableSources) <= Len(availableSources')
          /\ Len(availableSources') <= Len(availableSources) + 1
          /\ KeepsOrder(availableSources, availableSources')]_vars

\* the third match went in front of the two that were shown, which kept
\* their order
C22_Witness ==
    /\ clientPc = "reading"
    /\ Len(allMatches) = 3
    /\ sortMatches(SubSeq(allMatches, 1, 2)) = SubSeq(allMatches, 1, 2)
    /\ availableSources = <<allMatches[3], allMatches[1], allMatches[2]>>


(***************************************************************************)
(* The matching specification: one provider, whose candidate list is any   *)
(* list of up to MaxCandidates names, searched for a title whose keyword   *)
(* is plain, reversed, or padded with whitespace.  The search applies the  *)
(* selection of searchSingleSource and getMatchConfidence to the list.     *)
(***************************************************************************)
MaxCandidates == 2

\* the names a provider lists: unrelated, contained in a keyword but for
\* its leading space, equal to a keyword, equal but for case and trailing
\* space, containing a keyword, the other keyword
CandidateNames ==
    {<<"x">>, <<" ", "a">>, <<"a", "b">>, <<"A", "b", " ">>,
     <<"a", "b", "x">>, <<"b", "a">>}

\* data.list of a provider: vod_id is the position in the list
CandidateLists ==
    {[i \in 1..Len(names) |-> VodItem(i, names[i])] :
        names \in UNION {[1..n -> CandidateNames] : n \in 1..MaxCandidates}}

MatchAnswers ==
    [nets |-> {"error"}, statuses |-> {200},
     bodies |-> {JsonBody(1, TRUE, list) : list \in CandidateLists}]

MatchTitles == {"T", "U", "V"}

MatchInit ==
    /\ vod_sources \in {r \in Registries : Len(r) = 1 /\ r[1].enabled}
    /\ title \in MatchTitles
    /\ doubanId \in DoubanIds
    /\ pc = "request"
    /\ answers = MatchAnswers
    /\ slow = {}
    /\ ServerIdle
    /\ ClientNone

MatchNext ==
    \/ GET
    \/ \E p \in Providers : FetchSettle(p)
    \/ \E p \in Providers : JsonSettle(p)

MatchSpec == MatchInit /\ [][MatchNext]_vars

\* the candidate list the provider of result event e answered with
ListOf(e) == response[ProviderOf(e.sourceKey)].body.list

\* a string without its leading and trailing whitespace, in lower case:
\* the characters from the first to the last that is not whitespace
Normalized(s) ==
    LET inner == {i \in 1..Len(s) : ~IsSpace(s[i])}
        first == CHOOSE i \in inner : \A j \in inner : i <= j
        last == CHOOSE i \in inner : \A j \in inner : j <= i
    IN  IF inner = {} THEN <<>>
        ELSE [i \in 1..(last - first + 1) |-> LowerChar(s[first + i - 1])]

\* a occurs in b as a run of consecutive characters
OccursIn(a, b) ==
    \E start \in 0..(Len(b) - Len(a)) :
        \A i \in 1..Len(a) : b[start + i] = a[i]

(***************************************************************************)
(* C23: from a non-empty candidate list the adapter returns (a) the first  *)
(* candidate whose name equals the title case-insensitively after          *)
(* trimming, else (b) the first candidate whose lowercased, trimmed name   *)
(* contains the normalized title or is contained in it, else (c) the first *)
(* candidate of the list.                                                  *)
(***************************************************************************)
SelectedByPrecedence(list, searched) ==
    LET equal == {i \in 1..Len(list) :
                    Normalized(list[i].vod_name) = Normalized(searched)}
        related == {i \in 1..Len(list) :
                      \/ OccursIn(Normalized(searched),
                                  Normalized(list[i].vod_name))
                      \/ OccursIn(Normalized(list[i].vod_name),
                                  Normalized(searched))}
    IN  IF equal # {} THEN FindIndex(equal)
        ELSE IF related # {} THEN FindIndex(related)
        ELSE 1

C23_SelectionPrecedence ==
    \A i \in ResultPositions :
        events[i].match # Null =>
            events[i].match.vod_id =
                ListOf(events[i])[SelectedByPrecedence(ListOf(events[i]),
                                                       cleanedTitle)].vod_id

(***************************************************************************)
(* C24: the confidence of a returned candidate is high exactly when name   *)
(* and title are equal after lowercasing and trimming, medium exactly when *)
(* they are not equal but one normalized string contains the other, and    *)
(* low exactly otherwise.                                                  *)
(***************************************************************************)
C24_ConfidenceTiers ==
    \A i \in ResultPositions :
        events[i].match # Null =>
            LET name == Normalized(events[i].match.vod_name)
                searched == Normalized(cleanedTitle)
                tier == events[i].match.match_confidence
                contained == OccursIn(name, searched) \/ OccursIn(searched, name)
            IN  /\ tier \in {"high", "medium", "low"}
                /\ tier = "high" <=> name = searched
                /\ tier = "medium" <=> (name # searched /\ contained)
                /\ tier = "low" <=> (name # searched /\ ~contained)

\* a candidate whose name differs from the title in case and in surrounding
\* whitespace has been returned, scored high
C24_Witness ==
    /\ ResultPositions # {}
    /\ \A i \in ResultPositions :
        /\ events[i].match # Null
        /\ events[i].match.match_confidence = "high"
        /\ events[i].match.vod_name # cleanedTitle
        /\ ToLowerCase(events[i].match.vod_name) # ToLowerCase(cleanedTitle)

(***************************************************************************)
(* C26: the candidate searchSingleSource returns has the highest           *)
(* confidence tier, as getMatchConfidence computes it, among all           *)
(* candidates of the list.                                                 *)
(***************************************************************************)
C26_SelectionMatchesScoring ==
    \A i \in ResultPositions :
        events[i].match # Null =>
            \A k \in 1..Len(ListOf(events[i])) :
                order(getMatchConfidence(ListOf(events[i])[k].vod_name,
                                         cleanedTitle))
                    <= order(events[i].match.match_confidence)


(***************************************************************************)
(* C25: in one search at most one request is sent to each provider of the  *)
(* snapshot, also when that request fails or times out; a provider outside *)
(* the snapshot is sent none.                                              *)
(***************************************************************************)
C25_NoRetry ==
    /\ \A k \in DOMAIN fetchCalls : fetchCalls[k] <= 1
    /\ \A k \in DOMAIN fetchCalls :
        fetchCalls[k] = 1 => \E p \in Providers : allSources[p].key = k

\* every provider of the snapshot failed (rejected fetch, timeout, error
\* status, unreadable body), the search is done, and each was asked once
C25_Witness ==
    /\ HasDone
    /\ Len(allSources) > 1
    /\ \A p \in Providers :
        /\ FailedResponse(response[p])
        /\ fetchCalls[allSources[p].key] = 1
    /\ \E p \in Providers : response[p].net = "timeout"
    /\ \E p \in Providers : response[p].net = "error"


(***************************************************************************)
(* C29: in every step of a search both counters only increase,             *)
(* foundCount <= completedCount, and foundCount is the number of result    *)
(* events emitted so far whose match is not null.                          *)
(***************************************************************************)
FoundEvents(stream) ==
    {i \in 1..Len(stream) :
        stream[i].type = "result" /\ stream[i].match # Null}

C29_CountersConsistent ==
    [][/\ completedCount' >= completedCount
       /\ foundCount' >= foundCount
       /\ foundCount' <= completedCount'
       /\ foundCount' = Cardinality(FoundEvents(events'))]_vars


(***************************************************************************)
(* C28: a search that starts while saveVodSourcesToDB is in progress       *)
(* (both the old and the new list hold an enabled provider) does not fail  *)
(* with 404 'No video sources configured' and does not take an empty       *)
(* snapshot.                                                               *)
(***************************************************************************)
BulkSaveInProgress == admin.pending # Null

C28_BulkSaveAtomic ==
    [][(pc = "request" /\ pc' # "request" /\ title # ""
        /\ BulkSaveInProgress)
       => (httpStatus' # 404 /\ allSources' # <<>>)]_vars


(***************************************************************************)
(* The page is opened again (page.tsx): the component mounts with its      *)
(* initial state and its mount effect calls searchPlaySources(), which     *)
(* finds what the done handler of an earlier search left in localStorage.  *)
(* The page is opened again within the 30 minutes the cache is valid; the  *)
(* request of the earlier search is over.                                  *)
(***************************************************************************)
ClientRemount ==
    /\ clientPc = "ended"
    /\ clientPc' = "idle"
    /\ clientPos' = 0
    /\ searchStatus' = "idle"
    /\ availableSources' = <<>>
    /\ allMatches' = <<>>
    /\ searchedSourceCount' = 0
    /\ totalSourceCount' = 0
    /\ pc' = "none"
    /\ httpStatus' = 0
    /\ cleanedTitle' = <<>>
    /\ allSources' = <<>>
    /\ task' = <<>>
    /\ response' = <<>>
    /\ completedCount' = 0
    /\ foundCount' = 0
    /\ events' = <<>>
    /\ streamState' = "none"
    /\ startState' = "none"
    /\ fetchCalls' = NoFetchCalls
    /\ UNCHANGED <<vod_sources, title, doubanId, consumerGone, answers, slow,
                   admin, other, localStorage, player>>

RevisitNext ==
    \/ ClientNext
    \/ ClientRemount

RevisitSpec == ClientInit /\ [][RevisitNext]_vars

(***************************************************************************)
(* C27: the list of sources shown to the user is in ranked order (priority *)
(* ascending, then confidence descending) whenever it is shown, also when  *)
(* it was restored from the cache written at done, so that                 *)
(* availableSources[0], the quick-play target, is a best-ranked match.     *)
(***************************************************************************)
C27_ShownListRanked ==
    \A i, j \in 1..Len(availableSources) :
        i < j => RankedBefore(availableSources[i], availableSources[j])


(***************************************************************************)
(* IframePlayer: the failover between iframe players.  player is           *)
(*   [enabledPlayers, externalPlayerIndex, internalPlayerIndex, isLoading, *)
(*    loadAttempts, playerError, loaded]:                                  *)
(* enabledPlayers is enabledPlayers.length, externalPlayerIndex is the     *)
(* prop currentPlayerIndex (Undefined when the parent does not pass it),   *)
(* and loaded counts the players whose iframe was mounted since the        *)
(* component was mounted, retry was pressed or the user chose a player.    *)
(* A parent that passes currentPlayerIndex stores the index it is handed   *)
(* through onPlayerSwitch.                                                 *)
(***************************************************************************)
MaxPlayers == 4

\* loads after which the model stops following a failover
MaxLoads == 6

Undefined == -1

Min(a, b) == IF a <= b THEN a ELSE b

\* const currentPlayerIndex = externalPlayerIndex !== undefined ? ... : ...
currentPlayerIndex(pl) ==
    IF pl.externalPlayerIndex # Undefined THEN pl.externalPlayerIndex
    ELSE pl.internalPlayerIndex

\* const currentPlayer = enabledPlayers[currentPlayerIndex], when defined
HasCurrentPlayer(pl) == currentPlayerIndex(pl) < pl.enabledPlayers

\* the state of a component that has just been mounted: useState initial
\* values, after its mount effects
Mounted(n, external) ==
    [enabledPlayers |-> n, externalPlayerIndex |-> external,
     internalPlayerIndex |-> 0, isLoading |-> TRUE, loadAttempts |-> 0,
     playerError |-> FALSE, loaded |-> IF n > 0 THEN 1 ELSE 0]

\* the effects on [externalPlayerIndex] and [vodSource, externalPlayerIndex]
externalIndexEffects(pl) ==
    [pl EXCEPT !.isLoading = TRUE, !.playerError = FALSE, !.loadAttempts = 0]

\* the parent's onPlayerSwitch(index): it passes the index back as
\* currentPlayerIndex, and the effects run when the prop has changed
onPlayerSwitch(pl, index) ==
    IF pl.externalPlayerIndex = Undefined \/ pl.externalPlayerIndex = index
    THEN pl
    ELSE externalIndexEffects([pl EXCEPT !.externalPlayerIndex = index])

tryNextPlayer(pl) ==
    LET maxAttempts == Min(pl.enabledPlayers, 3)
        nextIndex == (currentPlayerIndex(pl) + 1) % pl.enabledPlayers
    IN  IF pl.loadAttempts >= maxAttempts - 1
        THEN [pl EXCEPT !.playerError = TRUE, !.isLoading = FALSE]
        ELSE onPlayerSwitch(
                 [pl EXCEPT !.internalPlayerIndex =
                                IF pl.externalPlayerIndex = Undefined
                                THEN nextIndex ELSE @,
                            !.loadAttempts = @ + 1,
                            !.isLoading = TRUE,
                            !.loaded = @ + 1],
                 nextIndex)

PlayerUnchanged ==
    UNCHANGED <<serverVars, envVars, clientPc, clientPos, searchStatus,
                availableSources, allMatches, searchedSourceCount,
                totalSourceCount, localStorage>>

\* the timeout of the current player fires: setTimeout(tryNextPlayer, ...)
PlayerTimeout ==
    /\ player # Null
    /\ player.isLoading /\ ~player.playerError /\ HasCurrentPlayer(player)
    /\ player.loaded < MaxLoads
    /\ player' = tryNextPlayer(player)
    /\ PlayerUnchanged

\* the iframe reports an error while it loads: handleIframeError
IframeError ==
    /\ player # Null
    /\ player.isLoading /\ ~player.playerError /\ HasCurrentPlayer(player)
    /\ player.loaded < MaxLoads
    /\ player' = tryNextPlayer(player)
    /\ PlayerUnchanged

\* the iframe has loaded: handleIframeLoad, and its 300 ms timer
IframeLoad ==
    /\ player # Null
    /\ player.isLoading /\ ~player.playerError /\ HasCurrentPlayer(player)
    /\ player' = [player EXCEPT !.isLoading = FALSE]
    /\ PlayerUnchanged

\* the user presses the retry button of the error view
PlayerRetry ==
    /\ player # Null
    /\ player.playerError
    /\ player' =
         onPlayerSwitch(
             [player EXCEPT !.playerError = FALSE,
                            !.internalPlayerIndex =
                                IF player.externalPlayerIndex = Undefined
                                THEN 0 ELSE @,
                            !.loadAttempts = 0,
                            !.isLoading = TRUE,
                            !.loaded = 1],
             0)
    /\ PlayerUnchanged

\* the user chooses another player in the parent: the prop changes
ParentSelects(index) ==
    /\ player # Null
    /\ player.externalPlayerIndex # Undefined
    /\ index \in 0..(player.enabledPlayers - 1)
    /\ index # player.externalPlayerIndex
    /\ player' = externalIndexEffects(
                     [player EXCEPT !.externalPlayerIndex = index,
                                    !.loaded = 1])
    /\ PlayerUnchanged

PlayerInit ==
    /\ vod_sources = <<>>
    /\ title = "T"
    /\ doubanId \in DoubanIds
    /\ pc = "none"
    /\ answers = ClientAnswers
    /\ slow = {}
    /\ ServerIdle
    /\ clientPc = "none"
    /\ clientPos = 0
    /\ searchStatus = "idle"
    /\ availableSources = <<>>
    /\ allMatches = <<>>
    /\ searchedSourceCount = 0
    /\ totalSourceCount = 0
    /\ localStorage = Null
    /\ player \in {Mounted(n, external) :
                      n \in 0..MaxPlayers, external \in {Undefined, 0}}

PlayerNext ==
    \/ PlayerTimeout
    \/ IframeError
    \/ IframeLoad
    \/ PlayerRetry
    \/ \E index \in 0..(MaxPlayers + 1) : ParentSelects(index)

PlayerSpec == PlayerInit /\ [][PlayerNext]_vars

(***************************************************************************)
(* C30: when the players fail to load, IframePlayer reaches the error      *)
(* state after at most min(number of enabled players, 3) players were      *)
(* tried and then stops switching, with an internal player index and with  *)
(* one the parent controls; retry restarts from player 0 with the attempt  *)
(* count reset.                                                            *)
(***************************************************************************)
C30_FailoverBounded ==
    [][/\ player'.loaded <= Min(player'.enabledPlayers, 3)
       /\ player'.playerError => ~player'.isLoading
       /\ (player.playerError /\ ~player'.playerError
           /\ player'.externalPlayerIndex = player.externalPlayerIndex)
          => /\ currentPlayerIndex(player') = 0
             /\ player'.loadAttempts = 0
             /\ player'.isLoading]_vars

=============================================================================
